---- MODULE Spec2Model ----
(***************************************************************************)
(* ed-daemon: a daemon that keeps a fixed list of named deployments in     *)
(* step with the containers of a Docker engine.                            *)
(*                                                                         *)
(* Strings that the code builds or takes apart (container names, image     *)
(* references, ids) are sequences of tokens, so that format!, starts_with  *)
(* and trim_start_matches are computed and not assumed.  The empty string  *)
(* is the empty sequence.  Option<T> is a sequence of length 0 or 1.       *)
(***************************************************************************)
EXTENDS Integers, Sequences, FiniteSets, TLC

VARIABLES
    engine,       \* the engine's container inventory, in listing order
    nextId,       \* the number the engine gives the next container it creates
    deployments,  \* Manager.deployments, the Deployment table
    dockerLock,   \* Mutex<DockerClient>: the handler holding it, or Free
    managerLock,  \* Mutex<Manager>: the handler holding it, or Free
    h,            \* per handler task: request, position, result, requests sent
    issued,       \* number of requests accepted so far
    tasks,        \* the handler tasks the server runs concurrently
    bound         \* history: the ids builds have put into the table so far

vars ==
    <<engine, nextId, deployments, dockerLock, managerLock, h, issued, tasks, bound>>

----------------------------------------------------------------------------
(* Bounds of the model *)

\* requests accepted in one behaviour
MaxOps == 2

----------------------------------------------------------------------------
(* Strings *)

EmptyString == <<>>

None == <<>>

Some(x) == <<x>>

\* str::starts_with
StartsWith(s, prefix) ==
    /\ Len(s) >= Len(prefix)
    /\ SubSeq(s, 1, Len(prefix)) = prefix

\* str::trim_start_matches: drops every leading occurrence of the token
RECURSIVE TrimStartMatches(_, _)
TrimStartMatches(s, tok) ==
    IF s # <<>> /\ Head(s) = tok THEN TrimStartMatches(Tail(s), tok) ELSE s

\* mutant: the matched candidate stays in the candidate set
RemoveAt_Keeps(s, index) == s

\* Vec::remove(index)
RemoveAt(s, index) ==
    SubSeq(s, 1, index - 1) \o SubSeq(s, index + 1, Len(s))

----------------------------------------------------------------------------
(* Configuration *)

\* Config.container_prefix: "/" followed by the configured prefix
container_prefix == <<"/", "ed_">>

\* Config.deployments, in file order
config_deployments == << [name |-> "web"], [name |-> "api"] >>

\* names a request can carry: the configured ones and one that is not configured
RequestNames == {"web", "api", "ghost"}

----------------------------------------------------------------------------
(* Deployment records *)

Running == "running"
Stopped == "stopped"

\* #[derive(Default)] Deployment, with State::default() = Stopped; names and
\* health values are whole words, so their String::default() is ""
DeploymentDefault ==
    [id |-> EmptyString, name |-> "", state |-> Stopped,
     image |-> EmptyString, health |-> ""]

\* iter().find(|d| d.name == name): index of the first match, 0 when none
FindByName(table, name) ==
    IF \E i \in 1..Len(table) : table[i].name = name
    THEN CHOOSE i \in 1..Len(table) :
             /\ table[i].name = name
             /\ \A j \in 1..(i - 1) : table[j].name # name
    ELSE 0

----------------------------------------------------------------------------
(* The engine, as the client sees it *)

ContainerById(eng, id) ==
    IF \E i \in 1..Len(eng) : eng[i].id = id
    THEN Some(eng[CHOOSE i \in 1..Len(eng) : eng[i].id = id])
    ELSE None

HasName(eng, name) ==
    \E i \in 1..Len(eng) : \E k \in 1..Len(eng[i].names) : eng[i].names[k] = name

\* GET /containers/{id}/json; fails is a transport failure or a non-200 answer
\* to a request the engine could have served
inspect_running_container(eng, id, fails) ==
    LET c == ContainerById(eng, id) IN
    IF fails \/ c = None
    THEN [ok |-> FALSE]
    ELSE [ok |-> TRUE,
          state |-> [running |-> (c[1].state = "running"), health |-> c[1].health]]

\* the health column of a Deployment from an inspection
HealthOf(inspection) ==
    IF inspection.state.health # None
    THEN inspection.state.health[1]
    ELSE "unknown"

\* one entry of a handler's record of what it called and what came back
Entry(req, arg, ok, note) == [req |-> req, arg |-> arg, ok |-> ok, note |-> note]

----------------------------------------------------------------------------
(* Manager::new *)

ListOutcomes == {"ok", "err", "panic"}

\* GET /containers/json?all=true.  "err" is a transport failure; "panic" is the
\* unwrap of serde_json::from_str on a body that is no container array (the
\* status is not looked at); "ok" returns the inventory.
get_containers(eng, outcome) ==
    [outcome |-> outcome,
     containers |-> IF outcome = "ok" THEN eng ELSE <<>>,
     calls |-> << Entry("GET /containers/json", EmptyString, outcome = "ok", outcome) >>]

\* the names of a container that carry the prefix
MatchedNames(r) ==
    SelectSeq(r.names, LAMBDA name : StartsWith(name, container_prefix))

\* the containers with at least one prefixed name, each with those names
PrefixedContainers(running_containers) ==
    LET pairs == [i \in 1..Len(running_containers) |->
                     [container |-> running_containers[i],
                      names |-> MatchedNames(running_containers[i])]]
    IN SelectSeq(pairs, LAMBDA p : p.names # <<>>)

\* mutant: the first prefixed candidate is taken, whatever its names
FirstMatch_AnyPrefixed(prefixed, container_name) ==
    IF Len(prefixed) > 0 THEN 1 ELSE 0

\* the inner for loop with break: index of the first candidate one of whose
\* names equals container_name, 0 for remove_at = None
FirstMatch(prefixed, container_name) ==
    LET hit(i) == \E k \in 1..Len(prefixed[i].names) :
                      prefixed[i].names[k] = container_name
    IN IF \E i \in 1..Len(prefixed) : hit(i)
       THEN CHOOSE i \in 1..Len(prefixed) :
                hit(i) /\ \A j \in 1..(i - 1) : ~hit(j)
       ELSE 0

\* format!("{}{}", config.container_prefix, deployment.name)
ContainerName(name) == container_prefix \o <<name>>

\* mutant: the state is Running whatever the listing says
MatchedDeployment_AlwaysRunning(c, name, inspection) ==
    [id |-> c.id,
     name |-> name,
     state |-> Running,
     image |-> c.image,
     health |-> HealthOf(inspection)]

\* the Deployment built from a matched container and its inspection
MatchedDeployment(c, name, inspection) ==
    [id |-> c.id,
     name |-> name,
     state |-> IF c.state = "running" THEN Running ELSE Stopped,
     image |-> c.image,
     health |-> HealthOf(inspection)]

\* mutant: the record of an unmatched name is the default one, health "" included
EmptyDeployment_Default(name) == [DeploymentDefault EXCEPT !.name = name]

\* the Deployment of a configured name that matched no container
EmptyDeployment(name) ==
    [id |-> EmptyString, name |-> name, image |-> EmptyString,
     state |-> Stopped, health |-> "unknown"]

\* the loop over config.deployments: acc is Vec<Option<Deployment>> so far,
\* prefixed the candidates not yet consumed, inspectFails[i] whether the inspect
\* made for deployment i fails
RECURSIVE MatchDeployments(_, _, _, _, _, _)
MatchDeployments(eng, deployment_index, prefixed, acc, calls, inspectFails) ==
    IF deployment_index > Len(config_deployments)
    THEN [outcome |-> "ok", acc |-> acc, calls |-> calls, orphans |-> prefixed]
    ELSE
      LET deployment == config_deployments[deployment_index]
          remove_at  == FirstMatch(prefixed, ContainerName(deployment.name))
      IN IF remove_at = 0
         THEN MatchDeployments(eng, deployment_index + 1, prefixed,
                               Append(acc, None), calls, inspectFails)
         ELSE
           LET c == prefixed[remove_at].container
               inspection == inspect_running_container(
                                 eng, c.id, inspectFails[deployment_index])
               call == Entry("GET /containers/{id}/json", c.id, inspection.ok, "new")
           IN IF ~inspection.ok
              THEN [outcome |-> "err", calls |-> Append(calls, call)]
              ELSE MatchDeployments(
                       eng, deployment_index + 1, RemoveAt(prefixed, remove_at),
                       Append(acc, Some(MatchedDeployment(c, deployment.name, inspection))),
                       Append(calls, call), inspectFails)

\* the last loop: every None becomes the empty Deployment of its name
FillNone(acc) ==
    [i \in 1..Len(acc) |->
        IF acc[i] # None THEN acc[i][1]
        ELSE EmptyDeployment(config_deployments[i].name)]

\* Manager::new(config, docker)
ManagerNew(eng, listOutcome, inspectFails) ==
    LET listing == get_containers(eng, listOutcome) IN
    IF listing.outcome # "ok"
    THEN [outcome |-> listing.outcome, calls |-> listing.calls]
    ELSE
      LET m == MatchDeployments(eng, 1, PrefixedContainers(listing.containers),
                                <<>>, listing.calls, inspectFails)
      IN IF m.outcome # "ok"
         THEN m
         ELSE [outcome |-> "ok", deployments |-> FillNone(m.acc),
               calls |-> m.calls, orphans |-> m.orphans]

\* which of the per-deployment inspects of one pass fail
FailureChoices == [1..Len(config_deployments) -> BOOLEAN]

NoFailures == [i \in 1..Len(config_deployments) |-> FALSE]

----------------------------------------------------------------------------
(* Manager::update_deployments *)

\* the first loop: one inspect per record, by the id the record holds
IncrementalDeployment(eng, deployment, fails) ==
    LET i == inspect_running_container(eng, deployment.id, fails) IN
    IF i.ok
    THEN [deployment EXCEPT !.health = HealthOf(i)]
    ELSE [deployment EXCEPT !.id = EmptyString, !.state = Stopped,
                            !.image = EmptyString]

Incremental(eng, table, incFails) ==
    [i \in 1..Len(table) |-> IncrementalDeployment(eng, table[i], incFails[i])]

IncrementalCalls(eng, table, incFails) ==
    [i \in 1..Len(table) |->
        Entry("GET /containers/{id}/json", table[i].id,
              inspect_running_container(eng, table[i].id, incFails[i]).ok, "old")]

\* mutant: the result of the build is not put in place of the table
update_deployments_KeepsStepped(eng, table, incFails, listOutcome, inspectFails) ==
    LET stepped == Incremental(eng, table, incFails)
        full_update == ManagerNew(eng, listOutcome, inspectFails)
    IN [outcome |-> full_update.outcome,
        deployments |-> stepped,
        calls |-> IncrementalCalls(eng, table, incFails) \o full_update.calls]

\* update_deployments(&mut self, config, docker): the table it leaves, whether it
\* returned Ok, and the requests it sent
update_deployments(eng, table, incFails, listOutcome, inspectFails) ==
    LET stepped == Incremental(eng, table, incFails)
        full_update == ManagerNew(eng, listOutcome, inspectFails)
    IN [outcome |-> full_update.outcome,
        deployments |-> IF full_update.outcome = "ok"
                        THEN full_update.deployments
                        ELSE stepped,
        calls |-> IncrementalCalls(eng, table, incFails) \o full_update.calls]

----------------------------------------------------------------------------
(* DockerClient: what each method returns and what it does to the engine *)

SetState(eng, id, state) ==
    [i \in 1..Len(eng) |->
        IF eng[i].id = id THEN [eng[i] EXCEPT !.state = state] ELSE eng[i]]

WithoutId(eng, id) == SelectSeq(eng, LAMBDA c : c.id # id)

\* answers to POST /containers/{id}/stop: 204 stopped, 304 already stopped (the
\* container ended by itself after the inspect), 500 refused, or no answer
StopAnswers == {"204", "304", "500", "transport"}

\* mutant: "not modified" is taken for a failure
stop_running_container_Only204(eng, id, inspectFails, answer) ==
    LET inspection == inspect_running_container(eng, id, inspectFails)
        inspected == Entry("GET /containers/{id}/json", id, inspection.ok, "stop")
        request == Entry("POST /containers/{id}/stop", id, answer = "204", answer)
    IN IF ~inspection.ok
       THEN [ok |-> FALSE, engine |-> eng, calls |-> <<inspected>>]
       ELSE IF inspection.state.running = FALSE
       THEN [ok |-> TRUE, engine |-> eng, calls |-> <<inspected>>]
       ELSE IF answer = "204"
       THEN [ok |-> TRUE, engine |-> SetState(eng, id, "exited"),
             calls |-> <<inspected, request>>]
       ELSE [ok |-> FALSE, engine |-> eng, calls |-> <<inspected, request>>]

\* stop_running_container(id)
stop_running_container(eng, id, inspectFails, answer) ==
    LET inspection == inspect_running_container(eng, id, inspectFails)
        inspected == Entry("GET /containers/{id}/json", id, inspection.ok, "stop")
        request == Entry("POST /containers/{id}/stop", id,
                         answer \in {"204", "304"}, answer)
    IN IF ~inspection.ok
       THEN [ok |-> FALSE, engine |-> eng, calls |-> <<inspected>>]
       ELSE IF inspection.state.running = FALSE
       THEN [ok |-> TRUE, engine |-> eng, calls |-> <<inspected>>]
       ELSE IF answer \in {"204", "304"}
       THEN [ok |-> TRUE, engine |-> SetState(eng, id, "exited"),
             calls |-> <<inspected, request>>]
       ELSE [ok |-> FALSE, engine |-> eng, calls |-> <<inspected, request>>]

\* remove_stopped_container(id): DELETE /containers/{id}; the engine answers 204
\* only for a container that exists and is not running
remove_stopped_container(eng, id, fails) ==
    LET c == ContainerById(eng, id)
        served == ~fails /\ c # None /\ c[1].state # "running"
        request == Entry("DELETE /containers/{id}", id, served,
                         IF served THEN "204" ELSE "other")
    IN [ok |-> served,
        engine |-> IF served THEN WithoutId(eng, id) ELSE eng,
        calls |-> <<request>>]

\* the name and the image reference start_container gives the launcher
CliName(deployment_name) ==
    TrimStartMatches(container_prefix, "/") \o <<deployment_name>>

CliImage(deployment_name) ==
    TrimStartMatches(container_prefix, "/") \o <<deployment_name, ":", "latest">>

\* what `docker run -d -it ... --name=<name> <image>` can do: the command cannot be
\* executed; it exits non-zero and creates nothing; it exits zero and the
\* container runs; it exits zero and the container has already ended
RunOutcomes(eng, name) ==
    IF HasName(eng, <<"/">> \o name)
    THEN {"exec_err", "nonzero"}
    ELSE {"exec_err", "nonzero", "running", "exited"}

\* the health section a new container shows: the image of web declares a health
\* check, the other images declare none
NewHealths(image) ==
    IF image = CliImage("web") THEN {Some("starting")} ELSE {None}

\* start_with_cli(name, image, args): Err only when the command cannot be executed
start_with_cli(eng, next, name, image, outcome, health) ==
    LET created == outcome \in {"running", "exited"}
        c == [id |-> <<next>>, names |-> << <<"/">> \o name >>, image |-> image,
              state |-> outcome, health |-> health]
    IN [ok |-> outcome # "exec_err",
        engine |-> IF created THEN <<c>> \o eng ELSE eng,
        nextId |-> IF created THEN next + 1 ELSE next,
        calls |-> << Entry("docker run", name, outcome # "exec_err", outcome) >>]

\* DockerClient::start(id): POST /containers/{id}/start
StartOutcomes(eng, id) ==
    LET c == ContainerById(eng, id) IN
    IF c = None THEN {"err"}
    ELSE IF c[1].state = "running" THEN {"err", "running"}
    ELSE {"err", "running", "exited"}

start(eng, id, outcome) ==
    [ok |-> outcome # "err",
     engine |-> IF outcome = "running" THEN SetState(eng, id, "running") ELSE eng,
     calls |-> << Entry("POST /containers/{id}/start", id, outcome # "err", outcome) >>]

\* str::split(":") on new_name: the number of parts
SplitLen(new_name) ==
    1 + Cardinality({i \in 1..Len(new_name) : new_name[i] = ":"})

\* what the engine answers to POST /images/load: no answer, or a stream with
\* this many "Loaded image: <repo:tag>" lines
LoadAnswers == {"transport", "0", "1", "2"}

TagAnswers == {"201", "other", "transport"}

PruneAnswers == {"answered", "transport"}

\* the image named by the last "Loaded image: " line of the stream
LoadedImageName(answer) ==
    IF answer = "1" THEN Some("first")
    ELSE IF answer = "2" THEN Some("second")
    ELSE None

\* mutant: a response without a "Loaded image: " line is not told apart
load_container_image_NoLineCheck(new_name, fileOpens, answer, tagAnswer, pruneAnswer) ==
    LET load == Entry("POST /images/load", EmptyString, answer # "transport", answer)
        loaded_image_name == LoadedImageName(answer)
        tag == Entry("POST /images/{name}/tag", loaded_image_name,
                     tagAnswer = "201", tagAnswer)
        prune == Entry("POST /images/prune", EmptyString,
                       pruneAnswer = "answered", pruneAnswer)
    IN IF ~fileOpens
       THEN [ok |-> FALSE, calls |-> <<>>]
       ELSE IF answer = "transport"
       THEN [ok |-> FALSE, calls |-> <<load>>]
       ELSE IF SplitLen(new_name) # 2
       THEN [ok |-> FALSE, calls |-> <<load>>]
       ELSE IF tagAnswer # "201"
       THEN [ok |-> FALSE, calls |-> <<load, tag>>]
       ELSE IF pruneAnswer = "transport"
       THEN [ok |-> FALSE, calls |-> <<load, tag, prune>>]
       ELSE [ok |-> TRUE, calls |-> <<load, tag, prune>>]

\* load_container_image(filename, new_name)
load_container_image(new_name, fileOpens, answer, tagAnswer, pruneAnswer) ==
    LET load == Entry("POST /images/load", EmptyString, answer # "transport", answer)
        loaded_image_name == LoadedImageName(answer)
        tag == Entry("POST /images/{name}/tag", loaded_image_name,
                     tagAnswer = "201", tagAnswer)
        prune == Entry("POST /images/prune", EmptyString,
                       pruneAnswer = "answered", pruneAnswer)
    IN IF ~fileOpens
       THEN [ok |-> FALSE, calls |-> <<>>]
       ELSE IF answer = "transport"
       THEN [ok |-> FALSE, calls |-> <<load>>]
       ELSE IF loaded_image_name = None
       THEN [ok |-> FALSE, calls |-> <<load>>]
       ELSE IF SplitLen(new_name) # 2
       THEN [ok |-> FALSE, calls |-> <<load>>]
       ELSE IF tagAnswer # "201"
       THEN [ok |-> FALSE, calls |-> <<load, tag>>]
       ELSE IF pruneAnswer = "transport"
       THEN [ok |-> FALSE, calls |-> <<load, tag, prune>>]
       ELSE [ok |-> TRUE, calls |-> <<load, tag, prune>>]

\* pull_container_image(path, new_name)
pull_container_image(path, new_name, pulled) ==
    [ok |-> pulled, calls |-> << Entry("pull", new_name, pulled, path) >>]

----------------------------------------------------------------------------
(* api.rs: the lifecycle steps *)

\* mutant: the state is never written
MarkStopped_Unchanged(deployment) == deployment

\* deployment.state = State::Stopped
MarkStopped(deployment) == [deployment EXCEPT !.state = Stopped]

\* mutant: the reset forgets to put the name back
ResetDeployment_DropsName(name) == DeploymentDefault

\* *deployment = Deployment::default(); deployment.name = name
ResetDeployment(name) == [DeploymentDefault EXCEPT !.name = name]

\* mutant: a failure of the engine call is returned in either mode
stop_AlwaysStrict(eng, table, name, fail_hard, inspectFails, answer) ==
    LET i == FindByName(table, name) IN
    IF i = 0
    THEN [status |-> "404", deployments |-> table, engine |-> eng, calls |-> <<>>]
    ELSE
      LET result == stop_running_container(eng, table[i].id, inspectFails, answer)
          attempt == Entry("stop", name, result.ok,
                           IF fail_hard THEN "strict" ELSE "lenient")
      IN IF ~result.ok
         THEN [status |-> "500", deployments |-> table, engine |-> result.engine,
               calls |-> <<attempt>> \o result.calls]
         ELSE [status |-> "ok",
               deployments |-> [table EXCEPT ![i] = MarkStopped(table[i])],
               engine |-> result.engine,
               calls |-> <<attempt>> \o result.calls]

\* stop(name, docker, manager, fail_hard)
stop(eng, table, name, fail_hard, inspectFails, answer) ==
    LET i == FindByName(table, name) IN
    IF i = 0
    THEN [status |-> "404", deployments |-> table, engine |-> eng, calls |-> <<>>]
    ELSE
      LET result == stop_running_container(eng, table[i].id, inspectFails, answer)
          attempt == Entry("stop", name, result.ok,
                           IF fail_hard THEN "strict" ELSE "lenient")
      IN IF fail_hard /\ ~result.ok
         THEN [status |-> "500", deployments |-> table, engine |-> result.engine,
               calls |-> <<attempt>> \o result.calls]
         ELSE [status |-> "ok",
               deployments |-> [table EXCEPT ![i] = MarkStopped(table[i])],
               engine |-> result.engine,
               calls |-> <<attempt>> \o result.calls]

\* mutant: the record is reset before the result of the engine is looked at
remove_ResetsFirst(eng, table, name, fail_hard, fails) ==
    LET i == FindByName(table, name) IN
    IF i = 0
    THEN [status |-> "404", deployments |-> table, engine |-> eng, calls |-> <<>>]
    ELSE
      LET result == remove_stopped_container(eng, table[i].id, fails)
          attempt == Entry("remove", name, result.ok,
                           IF fail_hard THEN "strict" ELSE "lenient")
      IN [status |-> IF fail_hard /\ ~result.ok THEN "500" ELSE "ok",
          deployments |-> [table EXCEPT ![i] = ResetDeployment(name)],
          engine |-> result.engine,
          calls |-> <<attempt>> \o result.calls]

\* remove(name, docker, manager, fail_hard)
remove(eng, table, name, fail_hard, fails) ==
    LET i == FindByName(table, name) IN
    IF i = 0
    THEN [status |-> "404", deployments |-> table, engine |-> eng, calls |-> <<>>]
    ELSE
      LET result == remove_stopped_container(eng, table[i].id, fails)
          attempt == Entry("remove", name, result.ok,
                           IF fail_hard THEN "strict" ELSE "lenient")
      IN IF fail_hard /\ ~result.ok
         THEN [status |-> "500", deployments |-> table, engine |-> result.engine,
               calls |-> <<attempt>> \o result.calls]
         ELSE [status |-> "ok",
               deployments |-> [table EXCEPT ![i] = ResetDeployment(name)],
               engine |-> result.engine,
               calls |-> <<attempt>> \o result.calls]

\* the Deployments record of the API for one Deployment
DeploymentsJson(d) ==
    [name |-> d.name, state |-> d.state, image |-> d.image, health |-> d.health]

\* the LoadResult start_container returns
LoadResult(d) == [outcome |-> "success", state |-> d.state, health |-> d.health]

----------------------------------------------------------------------------
(* api.rs: the handlers, each the sequence of its steps *)

LockDocker == [step |-> "lock", lock |-> "docker"]
LockManager == [step |-> "lock", lock |-> "manager"]
Update(on_err) == [step |-> "update_deployments", on_err |-> on_err]
Stop(fail_hard) == [step |-> "stop", fail_hard |-> fail_hard]
Remove(fail_hard) == [step |-> "remove", fail_hard |-> fail_hard]
Do(step) == [step |-> step]

get_deployments ==
    << LockDocker, LockManager, Update("map_err"), Do("list") >>

get_deployment ==
    << LockDocker, LockManager, Update("map_err"), Do("find") >>

start_deployment ==
    << LockDocker, LockManager, Update("unwrap"), Do("find_stopped"),
       Do("start"), Do("ok") >>

stop_deployment ==
    << LockManager, LockDocker, Update("unwrap"), Stop(TRUE), Do("ok") >>

delete_deployment ==
    << LockManager, LockDocker, Update("unwrap"), Stop(FALSE), Remove(FALSE),
       Do("ok") >>

\* mutant: the teardown removes before it stops
start_container_RemoveFirst ==
    << Remove(FALSE), Stop(FALSE), Do("config"), Do("start_with_cli"),
       Update("map_err"), Do("verify") >>

start_container ==
    << Stop(FALSE), Remove(FALSE), Do("config"), Do("start_with_cli"),
       Update("map_err"), Do("verify") >>

load_file ==
    << LockDocker, LockManager, Do("load_container_image") >> \o start_container

pull ==
    << LockDocker, LockManager, Do("pull_container_image") >> \o start_container

\* stop(..) and remove(..) called on their own, in either mode, by a caller that
\* holds both guards: stop twice in a row, remove once
stop_twice(fail_hard) ==
    << LockDocker, LockManager, Stop(fail_hard), Stop(fail_hard), Do("ok") >>

remove_once(fail_hard) ==
    << LockDocker, LockManager, Remove(fail_hard), Do("ok") >>

CallOps == {"stop_lenient", "stop_strict", "remove_lenient", "remove_strict"}

Ops == {"get_deployments", "get_deployment", "start_deployment", "stop_deployment",
        "delete_deployment", "load_file", "pull"}

Script(op) ==
    CASE op = "get_deployments" -> get_deployments
      [] op = "get_deployment" -> get_deployment
      [] op = "start_deployment" -> start_deployment
      [] op = "stop_deployment" -> stop_deployment
      [] op = "delete_deployment" -> delete_deployment
      [] op = "load_file" -> load_file
      [] op = "pull" -> pull
      [] op = "stop_lenient" -> stop_twice(FALSE)
      [] op = "stop_strict" -> stop_twice(TRUE)
      [] op = "remove_lenient" -> remove_once(FALSE)
      [] op = "remove_strict" -> remove_once(TRUE)

\* the names a request for op can carry (the list route has no name)
NamesOf(op) == IF op = "get_deployments" THEN {""} ELSE RequestNames

----------------------------------------------------------------------------
(* Handler tasks *)

Free == "free"

AllTasks == {"t1", "t2"}

Idle == [op |-> "none", name |-> "", pc |-> 0, result |-> "none",
         body |-> None, log |-> <<>>]

\* task t is about to run a step of this kind
At(t, kind) ==
    /\ t \in tasks
    /\ h[t].op # "none"
    /\ h[t].result = "none"
    /\ Script(h[t].op)[h[t].pc].step = kind

Cur(t) == Script(h[t].op)[h[t].pc]

\* the step went through: on to the next one
Advance(t, calls) ==
    h' = [h EXCEPT ![t].pc = @ + 1, ![t].log = @ \o calls]

\* the handler returns (result "ok", "404", "500") or panics
Finish(t, result, body, calls) ==
    h' = [h EXCEPT ![t].result = result, ![t].body = body, ![t].log = @ \o calls]

\* rocket accepts a request and runs its handler on a free task
Issue(t) ==
    /\ t \in tasks
    /\ h[t].op = "none"
    /\ issued < MaxOps
    /\ \E op \in Ops : \E name \in NamesOf(op) :
           h' = [h EXCEPT ![t] = [Idle EXCEPT !.op = op, !.name = name, !.pc = 1]]
    /\ issued' = issued + 1
    /\ UNCHANGED <<engine, nextId, deployments, dockerLock, managerLock, tasks, bound>>

\* a caller of stop(..) or remove(..) starts on a free task
IssueCall(t) ==
    /\ t \in tasks
    /\ h[t].op = "none"
    /\ issued < MaxOps
    /\ \E op \in CallOps : \E name \in RequestNames :
           h' = [h EXCEPT ![t] = [Idle EXCEPT !.op = op, !.name = name, !.pc = 1]]
    /\ issued' = issued + 1
    /\ UNCHANGED <<engine, nextId, deployments, dockerLock, managerLock, tasks, bound>>

\* mutant: the lock is handed out while another handler holds it
CanLock_NoWait(holder) == TRUE

\* tokio Mutex::lock().await: goes through once the mutex is free
CanLock(holder) == holder = Free

Lock(t) ==
    /\ At(t, "lock")
    /\ IF Cur(t).lock = "docker"
       THEN /\ CanLock(dockerLock)
            /\ dockerLock' = t
            /\ UNCHANGED managerLock
       ELSE /\ CanLock(managerLock)
            /\ managerLock' = t
            /\ UNCHANGED dockerLock
    /\ Advance(t, <<>>)
    /\ UNCHANGED <<engine, nextId, deployments, issued, tasks, bound>>

\* the handler's future completes or unwinds: both guards are dropped
Return(t) ==
    /\ t \in tasks
    /\ h[t].result # "none"
    /\ dockerLock' = IF dockerLock = t THEN Free ELSE dockerLock
    /\ managerLock' = IF managerLock = t THEN Free ELSE managerLock
    /\ h' = [h EXCEPT ![t] = Idle]
    /\ UNCHANGED <<engine, nextId, deployments, issued, tasks, bound>>

\* the non-empty ids of a table
IdsOf(table) == {table[i].id : i \in 1..Len(table)} \ {EmptyString}

\* manager.update_deployments(&config, &mut docker).await, then .unwrap() or
\* .map_err(|_| Status::InternalServerError)?
UpdateDeployments(t) ==
    /\ At(t, "update_deployments")
    /\ \E incFails \in FailureChoices, listOutcome \in ListOutcomes,
          inspectFails \in FailureChoices :
         LET u == update_deployments(engine, deployments, incFails,
                                     listOutcome, inspectFails)
             call == Entry("update_deployments", EmptyString, u.outcome = "ok",
                           u.outcome)
         IN /\ deployments' = u.deployments
            /\ bound' = IF u.outcome = "ok" THEN bound \cup IdsOf(u.deployments)
                         ELSE bound
            /\ IF u.outcome = "ok"
               THEN Advance(t, <<call>> \o u.calls)
               ELSE IF u.outcome = "panic" \/ Cur(t).on_err = "unwrap"
               THEN Finish(t, "panic", None, <<call>> \o u.calls)
               ELSE Finish(t, "500", None, <<call>> \o u.calls)
    /\ UNCHANGED <<engine, nextId, dockerLock, managerLock, issued, tasks>>

\* get_deployments: every record of the table
List(t) ==
    /\ At(t, "list")
    /\ Finish(t, "ok",
              Some([i \in 1..Len(deployments) |-> DeploymentsJson(deployments[i])]),
              <<>>)
    /\ UNCHANGED <<engine, nextId, deployments, dockerLock, managerLock, issued, tasks, bound>>

\* get_deployment: the record of that name, or NotFound
Find(t) ==
    /\ At(t, "find")
    /\ LET i == FindByName(deployments, h[t].name) IN
       IF i # 0
       THEN Finish(t, "ok", Some(DeploymentsJson(deployments[i])), <<>>)
       ELSE Finish(t, "404", None, <<>>)
    /\ UNCHANGED <<engine, nextId, deployments, dockerLock, managerLock, issued, tasks, bound>>

\* start_deployment: NotFound for an unknown name, Ok at once when Running
FindStopped(t) ==
    /\ At(t, "find_stopped")
    /\ LET i == FindByName(deployments, h[t].name) IN
       IF i = 0 THEN Finish(t, "404", None, <<>>)
       ELSE IF deployments[i].state = Running THEN Finish(t, "ok", Some("{}"), <<>>)
       ELSE Advance(t, <<>>)
    /\ UNCHANGED <<engine, nextId, deployments, dockerLock, managerLock, issued, tasks, bound>>

\* start_deployment: docker.start(&deployment.id).await.map_err(..)?
Start(t) ==
    /\ At(t, "start")
    /\ LET id == deployments[FindByName(deployments, h[t].name)].id IN
       \E outcome \in StartOutcomes(engine, id) :
          LET r == start(engine, id, outcome) IN
          /\ engine' = r.engine
          /\ IF r.ok THEN Advance(t, r.calls)
             ELSE Finish(t, "500", None, r.calls)
    /\ UNCHANGED <<nextId, deployments, dockerLock, managerLock, issued, tasks, bound>>

\* return Ok((Status::Ok, "{}"))
Ok(t) ==
    /\ At(t, "ok")
    /\ Finish(t, "ok", Some("{}"), <<>>)
    /\ UNCHANGED <<engine, nextId, deployments, dockerLock, managerLock, issued, tasks, bound>>

\* stop(&name, docker, manager, fail_hard).await?
StopStep(t) ==
    /\ At(t, "stop")
    /\ \E inspectFails \in BOOLEAN, answer \in StopAnswers :
          LET r == stop(engine, deployments, h[t].name, Cur(t).fail_hard,
                        inspectFails, answer) IN
          /\ engine' = r.engine
          /\ deployments' = r.deployments
          /\ IF r.status = "ok" THEN Advance(t, r.calls)
             ELSE Finish(t, r.status, None, r.calls)
    /\ UNCHANGED <<nextId, dockerLock, managerLock, issued, tasks, bound>>

\* remove(&name, docker, manager, fail_hard).await?
RemoveStep(t) ==
    /\ At(t, "remove")
    /\ \E fails \in BOOLEAN :
          LET r == remove(engine, deployments, h[t].name, Cur(t).fail_hard, fails) IN
          /\ engine' = r.engine
          /\ deployments' = r.deployments
          /\ IF r.status = "ok" THEN Advance(t, r.calls)
             ELSE Finish(t, r.status, None, r.calls)
    /\ UNCHANGED <<nextId, dockerLock, managerLock, issued, tasks, bound>>

\* start_container: config.deployments.iter().find(|d| d.name == deployment_name)
ConfigFind(t) ==
    /\ At(t, "config")
    /\ IF \E i \in 1..Len(config_deployments) :
              config_deployments[i].name = h[t].name
       THEN Advance(t, <<>>)
       ELSE Finish(t, "404", None, <<>>)
    /\ UNCHANGED <<engine, nextId, deployments, dockerLock, managerLock, issued, tasks, bound>>

\* start_container: docker.start_with_cli(..).map_err(..)?
StartWithCli(t) ==
    /\ At(t, "start_with_cli")
    /\ \E outcome \in RunOutcomes(engine, CliName(h[t].name)),
          health \in NewHealths(CliImage(h[t].name)) :
          LET r == start_with_cli(engine, nextId, CliName(h[t].name),
                                  CliImage(h[t].name), outcome, health) IN
          /\ engine' = r.engine
          /\ nextId' = r.nextId
          /\ IF r.ok THEN Advance(t, r.calls)
             ELSE Finish(t, "500", None, r.calls)
    /\ UNCHANGED <<deployments, dockerLock, managerLock, issued, tasks, bound>>

\* mutant: the state after the refresh is not looked at
IsRunning_Unchecked(d) == TRUE

\* start_container: the is_running check and the LoadResult
IsRunning(d) == d.state = Running

Verify(t) ==
    /\ At(t, "verify")
    /\ LET d == deployments[FindByName(deployments, h[t].name)] IN
       IF IsRunning(d) = FALSE
       THEN Finish(t, "500", None, <<>>)
       ELSE Finish(t, "ok", Some(LoadResult(d)), <<>>)
    /\ UNCHANGED <<engine, nextId, deployments, dockerLock, managerLock, issued, tasks, bound>>

\* load_file: docker.load_container_image(path, "<prefix><name>:latest").await.unwrap()
LoadContainerImage(t) ==
    /\ At(t, "load_container_image")
    /\ \E fileOpens \in BOOLEAN, answer \in LoadAnswers, tagAnswer \in TagAnswers,
          pruneAnswer \in PruneAnswers :
          LET r == load_container_image(CliImage(h[t].name), fileOpens, answer,
                                        tagAnswer, pruneAnswer) IN
          IF r.ok THEN Advance(t, r.calls)
          ELSE Finish(t, "panic", None, r.calls)
    /\ UNCHANGED <<engine, nextId, deployments, dockerLock, managerLock, issued, tasks, bound>>

\* pull: docker.pull_container_image(&pull.path, "ed_main:latest").await.unwrap()
PullContainerImage(t) ==
    /\ At(t, "pull_container_image")
    /\ \E pulled \in BOOLEAN :
          LET r == pull_container_image("path", <<"ed_main", ":", "latest">>, pulled) IN
          IF r.ok THEN Advance(t, r.calls)
          ELSE Finish(t, "panic", None, r.calls)
    /\ UNCHANGED <<engine, nextId, deployments, dockerLock, managerLock, issued, tasks, bound>>

----------------------------------------------------------------------------
(* Initial states *)

Container(n, name, state, health) ==
    [id |-> <<n>>, names |-> <<name>>, image |-> <<"img", n>>,
     state |-> state, health |-> health]

WebUp == Container(1, <<"/", "ed_", "web">>, "running", Some("healthy"))
WebDown == Container(1, <<"/", "ed_", "web">>, "exited", None)
ApiDown == Container(2, <<"/", "ed_", "api">>, "exited", None)
Old == Container(3, <<"/", "ed_", "old">>, "running", None)
Db == Container(4, <<"/", "db">>, "running", Some("healthy"))

\* inventories the engine can hold when the daemon starts
InitialInventories ==
    { <<>>, <<WebUp>>, <<WebDown>>, <<ApiDown, WebUp>>, <<Old, WebUp>>,
      <<Db, Old>> }

InitFor(taskSet, inventories) ==
    /\ engine \in inventories
    /\ nextId = 5
    /\ deployments = ManagerNew(engine, "ok", NoFailures).deployments
    /\ bound = IdsOf(deployments)
    /\ dockerLock = Free
    /\ managerLock = Free
    /\ h = [t \in AllTasks |-> Idle]
    /\ issued = 0
    /\ tasks = taskSet

\* a container that carries the names of two deployments, and a second
\* container under the name of web
WebApi ==
    [id |-> <<1>>, names |-> << <<"/", "ed_", "web">>, <<"/", "ed_", "api">> >>,
     image |-> <<"img", 1>>, state |-> "running", health |-> Some("healthy")]
WebTwin == Container(2, <<"/", "ed_", "web">>, "exited", None)

\* inventories in which names collide
CollidingInventories ==
    { <<WebApi>>, <<WebTwin, WebUp>>, <<WebUp, WebTwin>>, <<WebApi, ApiDown>>,
      <<Old, WebDown, WebTwin>> }

\* one request at a time
Init == InitFor({"t1"}, InitialInventories)

\* two requests at a time
InitConc == InitFor(AllTasks, { <<WebUp>> })

Next ==
    \E t \in AllTasks :
        \/ Issue(t)
        \/ Lock(t)
        \/ UpdateDeployments(t)
        \/ List(t)
        \/ Find(t)
        \/ FindStopped(t)
        \/ Start(t)
        \/ Ok(t)
        \/ StopStep(t)
        \/ RemoveStep(t)
        \/ ConfigFind(t)
        \/ StartWithCli(t)
        \/ Verify(t)
        \/ LoadContainerImage(t)
        \/ PullContainerImage(t)
        \/ Return(t)

Spec == Init /\ [][Next]_vars

SpecConc == InitConc /\ [][Next]_vars

\* one request at a time, over the inventories with colliding names
InitBuild == InitFor({"t1"}, CollidingInventories)

SpecBuild == InitBuild /\ [][Next]_vars

\* the calls of stop(..) and remove(..) alone, one caller at a time
NextCalls ==
    \E t \in AllTasks :
        \/ IssueCall(t)
        \/ Lock(t)
        \/ StopStep(t)
        \/ RemoveStep(t)
        \/ Ok(t)
        \/ Return(t)

SpecCalls == Init /\ [][NextCalls]_vars

----------------------------------------------------------------------------
(* Properties *)

\* task t has a result and has not yet given its locks back
Done(t) == t \in tasks /\ h[t].result # "none"

\* task t takes a step of this kind in the transition
Takes(t, kind) == At(t, kind) /\ h'[t] # h[t]

\* the first entry the transition adds to the record of task t
FirstNew(t) == h'[t].log[Len(h[t].log) + 1]

HasEntry(log, req) == \E i \in 1..Len(log) : log[i].req = req

IsConfigured(name) ==
    \E i \in 1..Len(config_deployments) : config_deployments[i].name = name

\* the containers of the engine that are running under the name of deployment name
RunningNamed(eng, name) ==
    {i \in 1..Len(eng) :
        /\ eng[i].state = "running"
        /\ \E k \in 1..Len(eng[i].names) : eng[i].names[k] = ContainerName(name)}

\* C1: in every reachable state the names of the Deployment table are the names
\* of the configured deployments: same length, same names, same order.
C1_TableNamesAreConfigNames ==
    /\ Len(deployments) = Len(config_deployments)
    /\ \A i \in 1..Len(deployments) :
           deployments[i].name = config_deployments[i].name

\* C1 witness: a delete has removed a container and reset its record, and the
\* table still carries the configured names.
C1_Witness ==
    \E t \in tasks :
        /\ Done(t)
        /\ h[t].op = "delete_deployment"
        /\ h[t].result = "ok"
        /\ \E i \in 1..Len(h[t].log) :
               h[t].log[i].req = "remove" /\ h[t].log[i].ok
        /\ deployments[FindByName(deployments, h[t].name)].id = EmptyString
        /\ C1_TableNamesAreConfigNames

\* C2 (as claimed): when update_deployments returns Err, the Deployment table after
\* the call is the table before the call.
C2_FailedRefreshKeepsTable ==
    [][\A t \in AllTasks :
          (Takes(t, "update_deployments") /\ FirstNew(t).note = "err")
              => deployments' = deployments]_vars

\* C3 (as claimed): no handler holds the table lock while it still has to take
\* the client lock.
C3_ClientLockFirst ==
    \A t \in tasks :
        ~(/\ managerLock = t
          /\ At(t, "lock")
          /\ Cur(t).lock = "docker")

\* a handler that is past its locks: it reads or writes the table and calls the
\* engine from here until it returns
InProgress(t) ==
    /\ t \in tasks
    /\ h[t].op # "none"
    /\ (h[t].result # "none" \/ Cur(t).step # "lock")

\* C4: two operations are never in progress at the same time: while one handler
\* is between its first and its last engine call or table access, no other
\* handler is past its locks.
C4_OperationsAreAtomic ==
    \A t1 \in tasks, t2 \in tasks :
        (t1 # t2) => ~(InProgress(t1) /\ InProgress(t2))

\* C4 witness: a launch has been made by one handler while another handler, asked
\* to stop or delete, waits for its first lock.
C4_Witness ==
    \E t1 \in tasks, t2 \in tasks :
        /\ t1 # t2
        /\ InProgress(t1)
        /\ HasEntry(h[t1].log, "docker run")
        /\ h[t2].op \in {"stop_deployment", "delete_deployment"}
        /\ At(t2, "lock")
        /\ h[t2].pc = 1

\* C5 (as claimed): delete is strict: a failed engine stop ends it with an
\* internal failure and no remove attempt; a failed engine remove ends it with an
\* internal failure; it never returns success after a failed step.
C5_DeleteIsStrict ==
    \A t \in tasks :
        (Done(t) /\ h[t].op = "delete_deployment") =>
            \A i \in 1..Len(h[t].log) :
                (h[t].log[i].req \in {"stop", "remove"} /\ ~h[t].log[i].ok) =>
                    /\ h[t].result = "500"
                    /\ (h[t].log[i].req = "stop" => ~HasEntry(h[t].log, "remove"))

\* C6: when start_container has completed for a configured name, at most one
\* container runs under that name, exactly one when it reports success; and a
\* container it created is the only container of that name.
C6_OneRunningAfterStart ==
    \A t \in tasks :
        (Done(t) /\ h[t].op \in {"load_file", "pull"} /\ IsConfigured(h[t].name)) =>
            /\ Cardinality(RunningNamed(engine, h[t].name)) <= 1
            /\ (h[t].result = "ok" =>
                    Cardinality(RunningNamed(engine, h[t].name)) = 1)
            /\ (\E i \in 1..Len(h[t].log) :
                    /\ h[t].log[i].req = "docker run"
                    /\ h[t].log[i].note \in {"running", "exited"})
                 => Cardinality({i \in 1..Len(engine) :
                        \E k \in 1..Len(engine[i].names) :
                            engine[i].names[k] = ContainerName(h[t].name)}) = 1

\* C6 witness: the prior container was running (the stop request was sent and
\* answered 204), it was removed, a new one was launched, and the operation
\* reports success with one container running.
C6_Witness ==
    \E t \in tasks :
        /\ Done(t)
        /\ h[t].op = "load_file"
        /\ h[t].result = "ok"
        /\ \E i \in 1..Len(h[t].log) :
               h[t].log[i].req = "POST /containers/{id}/stop" /\ h[t].log[i].note = "204"
        /\ \E i \in 1..Len(h[t].log) :
               h[t].log[i].req = "DELETE /containers/{id}" /\ h[t].log[i].ok
        /\ \E i \in 1..Len(h[t].log) :
               h[t].log[i].req = "docker run" /\ h[t].log[i].note = "running"
        /\ Cardinality(RunningNamed(engine, h[t].name)) = 1

\* C7 (as claimed): when the run command cannot be executed or exits non-zero,
\* the operation does not report success.
C7_LaunchFailureSurfaced ==
    \A t \in tasks :
        (Done(t) /\ \E i \in 1..Len(h[t].log) :
                        /\ h[t].log[i].req = "docker run"
                        /\ h[t].log[i].note \in {"exec_err", "nonzero"})
            => h[t].result # "ok"

\* C8 (as claimed): a start operation (the start handler, load, pull) that reports
\* success has the deployment Running in the table, and every start or launch call
\* it made is followed by a refresh that succeeded.
C8_SuccessMeansVerifiedRunning ==
    \A t \in tasks :
        (/\ Done(t)
         /\ h[t].op \in {"start_deployment", "load_file", "pull"}
         /\ h[t].result = "ok") =>
            /\ deployments[FindByName(deployments, h[t].name)].state = Running
            /\ \A i \in 1..Len(h[t].log) :
                   h[t].log[i].req \in {"docker run", "POST /containers/{id}/start"} =>
                       \E j \in (i + 1)..Len(h[t].log) :
                           /\ h[t].log[j].req = "update_deployments"
                           /\ h[t].log[j].ok

\* C9: in every operation a remove attempt on a name comes after a stop attempt
\* on it, a delete request is sent only by a remove attempt, and the launcher
\* runs only after a stop attempt and then a remove attempt on that name.
C9_StopThenRemoveThenLaunch ==
    \A t \in tasks :
        LET log == h[t].log IN
        \A i \in 1..Len(log) :
            /\ log[i].req = "remove" =>
                   \E j \in 1..(i - 1) : log[j].req = "stop" /\ log[j].arg = log[i].arg
            /\ log[i].req = "DELETE /containers/{id}" =>
                   (i > 1 /\ log[i - 1].req = "remove")
            /\ log[i].req = "docker run" =>
                   \E j \in 1..(i - 1) : \E k \in (j + 1)..(i - 1) :
                       /\ log[j].req = "stop" /\ log[j].arg = h[t].name
                       /\ log[k].req = "remove" /\ log[k].arg = h[t].name
                       /\ log[i].arg = CliName(h[t].name)

\* C9 witness: an operation that stopped, removed and launched.
C9_Witness ==
    \E t \in tasks :
        /\ Done(t)
        /\ HasEntry(h[t].log, "POST /containers/{id}/stop")
        /\ HasEntry(h[t].log, "DELETE /containers/{id}")
        /\ HasEntry(h[t].log, "docker run")

\* what a stop step on a configured name returns, for C10
StopReturns(t) ==
    LET attempt == FirstNew(t) IN
    /\ (~attempt.ok /\ Cur(t).fail_hard) => h'[t].result = "500"
    /\ (~attempt.ok /\ ~Cur(t).fail_hard) => h'[t].result = "none"
    /\ attempt.ok => h'[t].result = "none"

\* a stop step changes nothing but the state of the record of that name
StopFrame(t) ==
    LET i == FindByName(deployments, h[t].name) IN
    deployments' = [deployments EXCEPT ![i].state = deployments'[i].state]

\* C10 (as claimed): stop on a configured name returns an error exactly when the
\* engine stop fails and strict is set; whatever the outcome the record's state is
\* Stopped afterwards; nothing else in the table changes.
C10_StopAlwaysMarksStopped ==
    [][\A t \in AllTasks :
          (Takes(t, "stop") /\ FindByName(deployments, h[t].name) # 0) =>
              /\ StopReturns(t)
              /\ deployments'[FindByName(deployments, h[t].name)].state = Stopped
              /\ StopFrame(t)]_vars

\* C10 (amended): stop on a configured name returns an error exactly when the
\* engine stop fails and strict is set, and then the table is unchanged; in every
\* other case the record's state is Stopped afterwards and nothing else in the
\* table changes.
C10_StopMarksStoppedUnlessStrictFailure ==
    [][\A t \in AllTasks :
          (Takes(t, "stop") /\ FindByName(deployments, h[t].name) # 0) =>
              /\ StopReturns(t)
              /\ IF h'[t].result = "none"
                 THEN deployments'[FindByName(deployments, h[t].name)].state = Stopped
                 ELSE deployments' = deployments
              /\ StopFrame(t)]_vars

\* C10 witness: a strict stop whose engine call failed has returned an error and
\* the record, Running before, is still Running.
C10_Witness ==
    \E t \in tasks :
        /\ Done(t)
        /\ h[t].op = "stop_deployment"
        /\ h[t].result = "500"
        /\ \E i \in 1..Len(h[t].log) :
               /\ h[t].log[i].req = "stop"
               /\ ~h[t].log[i].ok
               /\ h[t].log[i].note = "strict"
        /\ deployments[FindByName(deployments, h[t].name)].state = Running

\* C11: remove(name, strict) on a name of the table: when the engine removes the
\* container, or refuses and the call is lenient, the call succeeds and the
\* record of that name becomes the empty shape (empty id, empty image, state
\* Stopped) under the same name; when the engine refuses and the call is strict,
\* the call returns an error and the table is as before.  No other record is
\* touched in either case.
C11_RemoveResetsOrFailsStrict ==
    [][\A t \in AllTasks :
          LET i == FindByName(deployments, h[t].name) IN
          (Takes(t, "remove") /\ i # 0) =>
             IF Cur(t).fail_hard /\ ~FirstNew(t).ok
             THEN /\ h'[t].result = "500"
                  /\ deployments' = deployments
             ELSE /\ h'[t].result = "none"
                  /\ deployments'[i].id = EmptyString
                  /\ deployments'[i].image = EmptyString
                  /\ deployments'[i].state = Stopped
                  /\ deployments'[i].name = h[t].name
                  /\ \A j \in 1..Len(deployments) :
                         j # i => deployments'[j] = deployments[j]
                  /\ Len(deployments') = Len(deployments)]_vars

\* C11 witness: a strict remove of a running container was refused by the engine:
\* the caller has the error and the record still holds the container.
C11_Witness ==
    \E t \in tasks :
        /\ Done(t)
        /\ h[t].op = "remove_strict"
        /\ h[t].result = "500"
        /\ \E k \in 1..Len(h[t].log) :
               /\ h[t].log[k].req = "remove"
               /\ h[t].log[k].note = "strict"
               /\ ~h[t].log[k].ok
        /\ ContainerById(engine,
                deployments[FindByName(deployments, h[t].name)].id) # None

\* C12: stop on a deployment whose record has an empty id is idempotent: a second
\* call right after the first leaves the table the first call left, in either
\* mode, and in lenient mode neither call returns an error.
C12_StopIdempotentWithoutContainer ==
    [][\A t \in AllTasks :
          LET i == FindByName(deployments, h[t].name) IN
          (Takes(t, "stop") /\ i # 0 /\ deployments[i].id = EmptyString) =>
             /\ ~Cur(t).fail_hard => h'[t].result = "none"
             /\ HasEntry(h[t].log, "stop") => deployments' = deployments
             /\ \A inspectFails \in BOOLEAN, answer \in StopAnswers :
                    LET again == stop(engine', deployments', h[t].name,
                                      Cur(t).fail_hard, inspectFails, answer)
                    IN /\ again.deployments = deployments'
                       /\ ~Cur(t).fail_hard => again.status = "ok"]_vars

\* C12 witness: two lenient stops in a row on a record with no container: the
\* engine call failed both times, the caller has no error, the record is Stopped.
C12_Witness ==
    \E t \in tasks :
        /\ Done(t)
        /\ h[t].op = "stop_lenient"
        /\ h[t].result = "ok"
        /\ \E k1, k2 \in 1..Len(h[t].log) :
               /\ k1 < k2
               /\ h[t].log[k1].req = "stop" /\ ~h[t].log[k1].ok
               /\ h[t].log[k2].req = "stop" /\ ~h[t].log[k2].ok
        /\ LET i == FindByName(deployments, h[t].name) IN
               /\ deployments[i].id = EmptyString
               /\ deployments[i].state = Stopped

\* the entries of a record that are requests to the engine (the others mark the
\* calls of update_deployments, stop and remove)
EngineRequests(log) ==
    {k \in 1..Len(log) : log[k].req \notin {"update_deployments", "stop", "remove"}}

\* C13 (as claimed): a start or a load + start for a name that is not in the
\* configuration ends with not-found and has sent no request to the engine.
C13_UnknownNameTouchesNothing ==
    \A t \in tasks :
        (/\ Done(t)
         /\ h[t].op \in {"start_deployment", "load_file"}
         /\ ~IsConfigured(h[t].name))
            => /\ h[t].result = "404"
               /\ EngineRequests(h[t].log) = {}

\* the engine answered the load request of task t without a "Loaded image: " line
LoadedNothing(log) ==
    \E k \in 1..Len(log) : log[k].req = "POST /images/load" /\ log[k].note = "0"

\* C14: when the response to the load request has no "Loaded image: " line, the
\* load operation ends with an error at that request: the request is the last
\* entry of the operation (no tag, prune, stop, remove or launch follows), and
\* the Deployment table and the engine stay as they were.
C14_NoLoadedLineFailsAtOnce ==
    [][\A t \in AllTasks :
          /\ (Takes(t, "load_container_image") /\ LoadedNothing(h'[t].log)) =>
                 /\ h'[t].result \in {"panic", "500"}
                 /\ Len(h'[t].log) = Len(h[t].log) + 1
                 /\ deployments' = deployments
                 /\ engine' = engine
          /\ LoadedNothing(h[t].log) =>
                 /\ h'[t].log \in {h[t].log, <<>>}
                 /\ deployments' = deployments
                 /\ engine' = engine]_vars

\* C14 witness: a load for a configured name got an answer without the line and
\* ended in a failure with the load request as its only entry.
C14_Witness ==
    \E t \in tasks :
        /\ Done(t)
        /\ h[t].op = "load_file"
        /\ IsConfigured(h[t].name)
        /\ LoadedNothing(h[t].log)
        /\ h[t].result = "panic"
        /\ Len(h[t].log) = 1

\* the positions in the inventory of the containers one of whose names is the
\* fully-qualified name of deployment name
Carriers(eng, name) ==
    {k \in 1..Len(eng) :
        \E n \in 1..Len(eng[k].names) : eng[k].names[n] = ContainerName(name)}

\* what a record says of container c under a deployment name
RecordOf(c, name) ==
    [id |-> c.id,
     name |-> name,
     state |-> IF c.state = "running" THEN Running ELSE Stopped,
     image |-> c.image,
     health |-> IF c.health = None THEN "unknown" ELSE c.health[1]]

\* the record of a deployment without container
NoContainerRecord(name) ==
    [id |-> EmptyString, name |-> name, state |-> Stopped,
     image |-> EmptyString, health |-> "unknown"]

\* P(inventory, table) holds of every table a build has produced: the one of
\* the start of the daemon and the one of every refresh that succeeded
OfEveryBuild(P(_, _)) ==
    /\ issued = 0 => P(engine, deployments)
    /\ \A t \in AllTasks :
           (Takes(t, "update_deployments") /\ h'[t].result = "none")
               => P(engine, deployments')

\* the deployments without a container of their name have the empty record
Unmatched(eng, table) ==
    \A i \in 1..Len(config_deployments) :
        Carriers(eng, config_deployments[i].name) = {}
            => table[i] = NoContainerRecord(config_deployments[i].name)

\* C15: a deployment for which the inventory has no container of its
\* fully-qualified name gets, from every build, the record with empty id, state
\* Stopped, empty image and health "unknown", whatever else the engine holds; a
\* get of that deployment returns that record.
C15_UnmatchedIsEmptyRecord ==
    [][/\ OfEveryBuild(Unmatched)
       /\ \A t \in AllTasks :
              (/\ Takes(t, "find")
               /\ IsConfigured(h[t].name)
               /\ Carriers(engine, h[t].name) = {})
                  => /\ h'[t].result = "ok"
                     /\ h'[t].body =
                            Some(DeploymentsJson(NoContainerRecord(h[t].name)))]_vars

\* C15 witness: a get of api has returned the empty record while the engine holds
\* other containers, prefixed ones too, and none under the name of api.
C15_Witness ==
    \E t \in tasks :
        /\ Done(t)
        /\ h[t].op = "get_deployment"
        /\ h[t].name = "api"
        /\ h[t].result = "ok"
        /\ Carriers(engine, "api") = {}
        /\ Len(engine) >= 2
        /\ h[t].body = Some(DeploymentsJson(NoContainerRecord("api")))

\* the ids the records before position i of the table hold
TakenBefore(table, i) ==
    {table[j].id : j \in 1..(i - 1)} \ {EmptyString}

\* the carriers of the name of record i that no earlier record holds
Available(eng, table, i) ==
    {k \in Carriers(eng, config_deployments[i].name) :
        eng[k].id \notin TakenBefore(table, i)}

\* the first position of a non-empty set of positions
First(S) == CHOOSE k \in S : \A j \in S : k <= j

\* every deployment with a container of its name has the record of such a
\* container
MatchedAny(eng, table) ==
    \A i \in 1..Len(config_deployments) :
        Carriers(eng, config_deployments[i].name) # {}
            => \E k \in Carriers(eng, config_deployments[i].name) :
                   table[i] = RecordOf(eng[k], config_deployments[i].name)

\* every deployment with a container of its name that no earlier deployment
\* holds has the record of the first such container
MatchedAvailable(eng, table) ==
    \A i \in 1..Len(config_deployments) :
        Available(eng, table, i) # {}
            => table[i] = RecordOf(eng[First(Available(eng, table, i))],
                                   config_deployments[i].name)

\* C16 (as claimed): a deployment for which the inventory has a container of
\* its fully-qualified name gets, from every build, a record with the id and
\* image of that container, state Running iff the listing says running, and the
\* health of its inspection ("unknown" without health section).
C16_MatchedTakesContainer ==
    [][OfEveryBuild(MatchedAny)]_vars

\* C16 (amended): the same for a deployment for which the inventory has a
\* container of its name that is not bound to an earlier deployment of the
\* configuration: the record is that of the first such container.
C16_MatchedTakesFirstAvailable ==
    [][OfEveryBuild(MatchedAvailable)]_vars

\* C16 witness: a refresh bound web to the running container of its name and
\* took id, image, state and health from it.
C16_Witness ==
    \E t \in tasks :
        /\ Done(t)
        /\ h[t].op = "get_deployment"
        /\ h[t].name = "web"
        /\ h[t].result = "ok"
        /\ Carriers(engine, "web") # {}
        /\ deployments[1] = RecordOf(engine[First(Carriers(engine, "web"))], "web")
        /\ deployments[1].state = Running
        /\ deployments[1].health = "healthy"

\* no two records hold the same non-empty id
DistinctIds(eng, table) ==
    \A i, j \in 1..Len(table) :
        (i # j /\ table[i].id # EmptyString) => table[i].id # table[j].id

\* a name with several carriers is bound to the first of them
FirstCarrierBound(eng, table) ==
    \A i \in 1..Len(config_deployments) :
        LET named == Carriers(eng, config_deployments[i].name) IN
        Cardinality(named) >= 2
            => /\ table[i].id = eng[First(named)].id
               /\ \A k \in named \ {First(named)} :
                      \A j \in 1..Len(table) : table[j].id # eng[k].id

\* a name with several carriers is bound to the first of them that no earlier
\* record holds, and to none when every carrier is held
FirstAvailableBound(eng, table) ==
    \A i \in 1..Len(config_deployments) :
        LET named == Carriers(eng, config_deployments[i].name)
            free == Available(eng, table, i)
        IN Cardinality(named) >= 2
            => /\ free # {} => table[i].id = eng[First(free)].id
               /\ free = {} => table[i].id = EmptyString

\* a pass of update_deployments all of whose requests were answered succeeds
AnsweredPassSucceeds ==
    \A t \in AllTasks :
        (/\ Takes(t, "update_deployments")
         /\ \A k \in (Len(h[t].log) + 1)..Len(h'[t].log) :
                h'[t].log[k].req # "update_deployments" => h'[t].log[k].ok)
            => h'[t].result = "none"

\* C17 (as claimed): when several containers carry the fully-qualified name of
\* one deployment the build does not fail, binds the first of them in inventory
\* order and none of the others, and no table of a build has the same non-empty
\* id in two records.
C17_FirstOfSeveralBound ==
    [][/\ AnsweredPassSucceeds
       /\ OfEveryBuild(FirstCarrierBound)
       /\ OfEveryBuild(DistinctIds)]_vars

\* C17 (amended): the same, where the container bound is the first in inventory
\* order that is not already bound to an earlier deployment.
C17_FirstAvailableOfSeveralBound ==
    [][/\ AnsweredPassSucceeds
       /\ OfEveryBuild(FirstAvailableBound)
       /\ OfEveryBuild(DistinctIds)]_vars

\* C17 witness: two containers carry the name of web, a refresh succeeded, web
\* holds the first of them and no record holds the second.
C17_Witness ==
    \E t \in tasks :
        /\ Done(t)
        /\ h[t].op = "get_deployments"
        /\ h[t].result = "ok"
        /\ Cardinality(Carriers(engine, "web")) = 2
        /\ deployments[1].id = engine[First(Carriers(engine, "web"))].id
        /\ \A j \in 1..Len(deployments) :
               \A k \in Carriers(engine, "web") \ {First(Carriers(engine, "web"))} :
                   deployments[j].id # engine[k].id

\* the ids of the orphans: the containers with a prefixed name none of whose
\* names is the fully-qualified name of a configured deployment
OrphanIds(eng) ==
    {eng[k].id : k \in {k \in 1..Len(eng) :
        /\ MatchedNames(eng[k]) # <<>>
        /\ \A i \in 1..Len(config_deployments) :
               k \notin Carriers(eng, config_deployments[i].name)}}

\* the ids the stop and remove requests of the running operations carry
StopRemoveIds ==
    UNION {{h[t].log[k].arg : k \in {k \in 1..Len(h[t].log) :
               h[t].log[k].req \in {"POST /containers/{id}/stop",
                                    "DELETE /containers/{id}"}}} : t \in tasks}

\* no record holds the id of an orphan and no stop or remove request carries one
OrphansLeftAlone ==
    /\ \A i \in 1..Len(deployments) : deployments[i].id \notin OrphanIds(engine)
    /\ StopRemoveIds \cap OrphanIds(engine) = {}

\* C18 (as claimed): orphans are never in the table and never acted upon: every
\* stop or remove request carries an id that a build had bound to a configured
\* deployment, never the id of an orphan, and a pass all of whose requests are
\* answered succeeds, orphans or not.
C18_RequestsCarryBoundIds ==
    [][/\ OrphansLeftAlone /\ OrphansLeftAlone'
       /\ StopRemoveIds \subseteq bound /\ StopRemoveIds' \subseteq bound'
       /\ AnsweredPassSucceeds]_vars

\* C18 (amended): the same, where a remove request may also carry the empty id
\* of a record without container.
C18_RequestsCarryBoundOrEmptyIds ==
    [][/\ OrphansLeftAlone /\ OrphansLeftAlone'
       /\ StopRemoveIds \subseteq (bound \cup {EmptyString})
       /\ StopRemoveIds' \subseteq (bound' \cup {EmptyString})
       /\ AnsweredPassSucceeds]_vars

\* C18 witness: next to a running orphan, a delete stopped and removed the
\* container of web; the orphan is still there and still running.
C18_Witness ==
    \E t \in tasks :
        /\ Done(t)
        /\ h[t].op = "delete_deployment"
        /\ h[t].result = "ok"
        /\ \E k \in 1..Len(h[t].log) :
               /\ h[t].log[k].req = "DELETE /containers/{id}"
               /\ h[t].log[k].ok
               /\ h[t].log[k].arg \in bound
        /\ HasEntry(h[t].log, "POST /containers/{id}/stop")
        /\ OrphanIds(engine) # {}
        /\ \A k \in 1..Len(engine) :
               engine[k].id \in OrphanIds(engine) => engine[k].state = "running"

\* table is what the inventory alone determines: record by record, the first
\* container of the name that no earlier record holds, or the empty record
DeterminedByInventory(eng, table) ==
    /\ Len(table) = Len(config_deployments)
    /\ \A i \in 1..Len(config_deployments) :
           table[i] = IF Available(eng, table, i) = {}
                      THEN NoContainerRecord(config_deployments[i].name)
                      ELSE RecordOf(eng[First(Available(eng, table, i))],
                                    config_deployments[i].name)

\* C19: after every successful update_deployments the table is exactly what
\* Manager::new returns for the inventory of that moment, a function of the
\* inventory alone: the table before the refresh and the outcome of the
\* per-deployment inspects of its first step leave no trace.
C19_RefreshEqualsBuild ==
    [][\A t \in AllTasks :
          (Takes(t, "update_deployments") /\ h'[t].result = "none")
              => /\ deployments' = ManagerNew(engine, "ok", NoFailures).deployments
                 /\ DeterminedByInventory(engine, deployments')]_vars

\* C19 witness: in a get, the inspect of the first step failed for a record whose
\* container exists (the step cleared the record), the refresh succeeded, and the
\* table holds the container again.
C19_Witness ==
    \E t \in tasks :
        /\ Done(t)
        /\ h[t].op = "get_deployment"
        /\ h[t].result = "ok"
        /\ \E k \in 1..Len(h[t].log) :
               /\ h[t].log[k].note = "old"
               /\ ~h[t].log[k].ok
               /\ h[t].log[k].arg # EmptyString
               /\ \E i \in 1..Len(deployments) : deployments[i].id = h[t].log[k].arg
        /\ DeterminedByInventory(engine, deployments)

\* C20: stop_running_container inspects the container first; a failed inspect
\* (always so when the id does not exist) gives an error and no stop request; an
\* inspect that shows the container not running gives success and no stop
\* request; otherwise exactly one stop request is sent and the call succeeds iff
\* the engine answers 204 or 304, and stop then sets the record to Stopped.
C20_StopInspectsFirst ==
    [][\A t \in AllTasks :
          LET i == FindByName(deployments, h[t].name) IN
          (Takes(t, "stop") /\ i # 0) =>
             LET id == deployments[i].id
                 c == ContainerById(engine, id)
                 n == Len(h[t].log)
                 added == Len(h'[t].log) - n
                 call == h'[t].log[n + 1]
                 inspected == h'[t].log[n + 2]
             IN /\ added >= 2
                /\ inspected.req = "GET /containers/{id}/json"
                /\ inspected.arg = id
                /\ c = None => ~inspected.ok
                /\ IF ~inspected.ok
                   THEN added = 2 /\ ~call.ok
                   ELSE IF c[1].state # "running"
                   THEN added = 2 /\ call.ok
                   ELSE /\ added = 3
                        /\ h'[t].log[n + 3].req = "POST /containers/{id}/stop"
                        /\ h'[t].log[n + 3].arg = id
                        /\ call.ok <=> h'[t].log[n + 3].note \in {"204", "304"}
                        /\ h'[t].log[n + 3].note \in {"204", "304"}
                               => deployments'[i].state = Stopped]_vars

\* C20 witness: a stop of a running container was answered 304: the handler
\* returned Ok and the record is Stopped.
C20_Witness ==
    \E t \in tasks :
        /\ Done(t)
        /\ h[t].op = "stop_deployment"
        /\ h[t].result = "ok"
        /\ \E k \in 1..Len(h[t].log) :
               /\ h[t].log[k].req = "POST /containers/{id}/stop"
               /\ h[t].log[k].note = "304"
        /\ deployments[FindByName(deployments, h[t].name)].state = Stopped
        /\ deployments[FindByName(deployments, h[t].name)].id # EmptyString

\* entry k of log is a request req with this note
IsRequest(log, k, req, note) == log[k].req = req /\ log[k].note = note

\* C21 (as claimed): in load_container_image, once the load and the tag have
\* succeeded, a failure of the prune request, a transport failure too, is not
\* returned: the call succeeds and the handler goes on to start_container.
C21_PruneFailureNotPropagated ==
    [][\A t \in AllTasks :
          (/\ Takes(t, "load_container_image")
           /\ \E k \in 1..Len(h'[t].log) :
                  IsRequest(h'[t].log, k, "POST /images/{name}/tag", "201"))
              => /\ h'[t].result = "none"
                 /\ h'[t].pc = h[t].pc + 1]_vars

\* C22 (as claimed): load_container_image fails, and sends no tag request, when
\* the load response has more than one "Loaded image: " line; a tag request is
\* sent only after a response with exactly one such line.
C22_SeveralLoadedLinesFail ==
    [][\A t \in AllTasks :
          Takes(t, "load_container_image") =>
             /\ (\E k \in 1..Len(h'[t].log) :
                     IsRequest(h'[t].log, k, "POST /images/load", "2"))
                    => /\ h'[t].result # "none"
                       /\ ~HasEntry(h'[t].log, "POST /images/{name}/tag")
             /\ HasEntry(h'[t].log, "POST /images/{name}/tag")
                    => \E k \in 1..Len(h'[t].log) :
                           IsRequest(h'[t].log, k, "POST /images/load", "1")]_vars

\* C23 (as claimed): in every reachable state no record of the table has the
\* empty string for health, and a record without container (empty id) has
\* health "unknown".
C23_HealthNeverEmpty ==
    \A i \in 1..Len(deployments) :
        /\ deployments[i].health # ""
        /\ deployments[i].id = EmptyString => deployments[i].health = "unknown"

\* C24 (as claimed): there is no reachable state in which one handler holds the
\* client lock and waits for the table lock while another holds the table lock
\* and waits for the client lock.
C24_NoLockCycle ==
    ~ \E t1, t2 \in tasks :
          /\ t1 # t2
          /\ dockerLock = t1 /\ At(t1, "lock") /\ Cur(t1).lock = "manager"
          /\ managerLock = t2 /\ At(t2, "lock") /\ Cur(t2).lock = "docker"

\* C25 (as claimed): when a delete of a configured deployment has returned
\* success, the engine holds no container under the name of the deployment, and
\* a build on the inventory of that moment (the refresh of the next get) gives
\* the record state Stopped and an empty image.
C25_DeletedMeansGone ==
    \A t \in tasks :
        (/\ Done(t)
         /\ h[t].op = "delete_deployment"
         /\ h[t].result = "ok"
         /\ IsConfigured(h[t].name))
            => LET i == FindByName(deployments, h[t].name)
                   next == ManagerNew(engine, "ok", NoFailures).deployments[i]
               IN /\ Carriers(engine, h[t].name) = {}
                  /\ next.state = Stopped
                  /\ next.image = EmptyString

====
